---- MODULE Spec2Model ----
(***************************************************************************)
(* A model of src/main.py: the resume optimiser's orchestrator (main), the *)
(* structure analyser, the extraction and optimisation steps and the       *)
(* regular-expression parser of the layout renderer.                       *)
(*                                                                         *)
(* Texts are TLA+ strings; a character is a string of length one.  The     *)
(* regular expressions of the source are translated to scans over the      *)
(* characters of the text.  Model texts are ASCII.                         *)
(***************************************************************************)
EXTENDS Integers, Sequences, FiniteSets, TLC

VARIABLES
    text,          \* analyze_resume_structure: its argument
    structure,     \* analyze_resume_structure: its return value (None before the call)
    nfrag,         \* number of fragments the input under construction is made of
    pc,            \* main: the statement the run is at
    world,         \* the file system as the run finds it
    made_dirs,     \* the folders created by os.makedirs
    files,         \* the files written by the run: path -> data
    console,       \* the messages printed so far
    exit_status,   \* the exit status of the process (None while it runs)
    loc,           \* main: its local variables
    net,           \* the generative-text client: credential read, configured, calls issued
    called,        \* the functions and external programs main has invoked so far
    content,       \* create_pdf_resume: its first argument
    output_path,   \* create_pdf_resume: its second argument
    rpc,           \* create_pdf_resume: the statement the call is at
    pdf,           \* create_pdf_resume: the rows drawn on the FPDF object
    ret            \* create_pdf_resume: its return value

analyzeVars == <<text, structure, nfrag>>
mainVars == <<pc, world, made_dirs, console, exit_status, loc, net, called>>
renderVars == <<content, output_path, rpc, pdf, ret>>
vars == <<text, structure, nfrag, pc, world, made_dirs, files, console, exit_status,
          loc, net, called, content, output_path, rpc, pdf, ret>>

\* the absent value; a string value s is held as Str(s), so that "" and None differ
None == [none |-> TRUE]
Str(s) == [str |-> s]
\* Python's truth value of a string-or-None
Truthy(v) == v # None /\ v.str # ""

-----------------------------------------------------------------------------
(* Characters and the character classes of Python's re module.             *)

At(s, i) == IF i >= 1 /\ i <= Len(s) THEN SubSeq(s, i, i) ELSE ""

CharsOf(s) == { SubSeq(s, i, i) : i \in 1..Len(s) }

UpperCase == "ABCDEFGHIJKLMNOPQRSTUVWXYZ"
LowerCase == "abcdefghijklmnopqrstuvwxyz"
Digits == "0123456789"

\* \w : letters, digits and the underscore
WordChars == CharsOf(UpperCase) \cup CharsOf(LowerCase) \cup CharsOf(Digits) \cup {"_"}

\* \s : the whitespace characters
SpaceChars == {" ", "\t", "\n", "\r"}

IsWord(c) == c \in WordChars
IsSpace(c) == c \in SpaceChars

\* (?i) : characters are compared after case folding
Lower(c) ==
    IF c \in CharsOf(UpperCase)
    THEN LET i == CHOOSE k \in 1..Len(UpperCase) : SubSeq(UpperCase, k, k) = c
         IN  SubSeq(LowerCase, i, i)
    ELSE c

RECURSIVE LowerStr(_)
LowerStr(s) == IF s = "" THEN "" ELSE Lower(SubSeq(s, 1, 1)) \o LowerStr(SubSeq(s, 2, Len(s)))

\* the literal lit occurs in s at position i
StartsWithAt(s, i, lit) ==
    /\ i >= 1
    /\ i + Len(lit) - 1 <= Len(s)
    /\ SubSeq(s, i, i + Len(lit) - 1) = lit

\* \b at position i: between s[i-1] and s[i] exactly one is a word character
WordBoundary(s, i) == IsWord(At(s, i - 1)) # IsWord(At(s, i))

\* the least position p >= i with P(p), or 0
FirstFrom(s, i, P(_)) ==
    IF \E p \in i..Len(s) : P(p)
    THEN CHOOSE p \in i..Len(s) : P(p) /\ \A q \in i..(p - 1) : ~P(q)
    ELSE 0

-----------------------------------------------------------------------------
(* analyze_resume_structure                                                *)

common_sections ==
    << "EXPERIENCE", "EDUCATION", "SKILLS", "PROJECTS", "CERTIFICATIONS",
       "SUMMARY", "OBJECTIVE", "CONTACT", "REFERENCES", "PUBLICATIONS" >>

\* the glyphs of the bullet character class, by code point; no ASCII
\* character is among them
BulletGlyphs ==
    { "U+2022", "U+25CF", "U+25A0", "U+25E6", "U+25CB", "U+25D8",
      "U+25BA", "U+25AA", "U+25AB", "U+25B8", "U+25B9", "U+25C6" }

\* SectionSearch without the closing \b
SectionSearchNoEndBoundary(txt, section) ==
    \E i \in 1..(Len(txt) - Len(section) + 1) :
        /\ WordBoundary(txt, i)
        /\ LowerStr(SubSeq(txt, i, i + Len(section) - 1)) = LowerStr(section)

\* re.search(r'(?i)\b' + section + r'\b', text)
SectionSearch(txt, section) ==
    \E i \in 1..(Len(txt) - Len(section) + 1) :
        /\ WordBoundary(txt, i)
        /\ LowerStr(SubSeq(txt, i, i + Len(section) - 1)) = LowerStr(section)
        /\ WordBoundary(txt, i + Len(section))

DetectSections(txt) ==
    SelectSeq(common_sections, LAMBDA section : SectionSearch(txt, section))

HasBulletPoints(txt) == \E i \in 1..Len(txt) : At(txt, i) \in BulletGlyphs

\* the lines of txt: the maximal runs without a line break
RECURSIVE SplitLines(_)
SplitLines(txt) ==
    LET nl == FirstFrom(txt, 1, LAMBDA p : At(txt, p) = "\n")
    IN  IF nl = 0 THEN <<txt>>
        ELSE <<SubSeq(txt, 1, nl - 1)>> \o SplitLines(SubSeq(txt, nl + 1, Len(txt)))

\* len(line.split())
WordCount(line) ==
    Cardinality({ i \in 1..Len(line) :
                    ~IsSpace(At(line, i)) /\ (i = 1 \/ IsSpace(At(line, i - 1))) })

\* re.findall(r'(.+)\n(.+)\n(.+)', text)[0]: the first three consecutive
\* non-empty lines, the first of them ended by a line break
HasTables(txt) ==
    LET lines == SplitLines(txt)
        ok(k) == lines[k] # "" /\ lines[k + 1] # "" /\ lines[k + 2] # ""
    IN  /\ \E k \in 1..(Len(lines) - 2) : ok(k)
        /\ LET k == CHOOSE j \in 1..(Len(lines) - 2) :
                        ok(j) /\ \A h \in 1..(j - 1) : ~ok(h)
           IN  Cardinality({ WordCount(lines[k]), WordCount(lines[k + 1]),
                             WordCount(lines[k + 2]) }) <= 2

\* re.search(r'\n\s{2,}', text)
SearchNewlineSpaces(txt) ==
    \E i \in 1..Len(txt) :
        At(txt, i) = "\n" /\ IsSpace(At(txt, i + 1)) /\ IsSpace(At(txt, i + 2))

\* re.search(r'\n\t', text)
SearchNewlineTab(txt) ==
    \E i \in 1..Len(txt) : At(txt, i) = "\n" /\ At(txt, i + 1) = "\t"

IndentationStyle(txt) ==
    IF SearchNewlineSpaces(txt) THEN "spaces"
    ELSE IF SearchNewlineTab(txt) THEN "tabs"
    ELSE "unknown"

analyze_resume_structure(txt) ==
    [ sections          |-> DetectSections(txt),
      has_bullet_points |-> HasBulletPoints(txt),
      has_tables        |-> HasTables(txt),
      indentation_style |-> IndentationStyle(txt) ]

-----------------------------------------------------------------------------
(* The regular expressions of create_pdf_resume.  A pattern is a sequence  *)
(* of elements, each matched greedily from left to right:                  *)
(*   Lit(l)           the literal l                                        *)
(*   Run(S, min)      ([^S]{min,}), a capture group                        *)
(*   NRun(S, min)     [^S]{min,}, no group                                 *)
(*   Spaces           \s*  (no group)                                      *)
(*   Until(L)         (.*?)(?=l1|l2|...) with DOTALL, as a capture group   *)
(* In every pattern of the source the element after a run starts with a    *)
(* character the run excludes, so the greedy match is the only match.      *)

Lit(l) == [t |-> "lit", s |-> l]
Run(S, min) == [t |-> "run", excl |-> S, min |-> min, cap |-> TRUE]
NRun(S, min) == [t |-> "run", excl |-> S, min |-> min, cap |-> FALSE]
Spaces == [t |-> "spaces"]
Until(L) == [t |-> "until", stops |-> L]

NoMatch == [ok |-> FALSE, start |-> 0, next |-> 0, groups |-> <<>>]

\* the first position >= i of s whose character is in S, or Len(s) + 1
RunEnd(s, i, S) ==
    LET p == FirstFrom(s, i, LAMBDA q : At(s, q) \in S)
    IN  IF p = 0 THEN Len(s) + 1 ELSE p

\* the first position >= i of s whose character is not whitespace, or Len(s) + 1
SpacesEnd(s, i) ==
    LET p == FirstFrom(s, i, LAMBDA q : ~IsSpace(At(s, q)))
    IN  IF p = 0 THEN Len(s) + 1 ELSE p

\* elements k.. of pat matched against s from position i on
RECURSIVE MatchSeq(_, _, _, _, _, _)
MatchSeq(pat, k, s, start, i, groups) ==
    IF k > Len(pat)
    THEN [ok |-> TRUE, start |-> start, next |-> i, groups |-> groups]
    ELSE LET e == pat[k] IN
         CASE e.t = "lit" ->
                IF StartsWithAt(s, i, e.s)
                THEN MatchSeq(pat, k + 1, s, start, i + Len(e.s), groups)
                ELSE NoMatch
           [] e.t = "run" ->
                LET j == RunEnd(s, i, e.excl)
                IN  IF j - i >= e.min
                    THEN MatchSeq(pat, k + 1, s, start, j,
                                  IF e.cap THEN Append(groups, SubSeq(s, i, j - 1))
                                  ELSE groups)
                    ELSE NoMatch
           [] e.t = "spaces" ->
                MatchSeq(pat, k + 1, s, start, SpacesEnd(s, i), groups)
           [] e.t = "until" ->
                LET j == FirstFrom(s, i,
                             LAMBDA q : \E l \in e.stops : StartsWithAt(s, q, l))
                IN  IF j # 0
                    THEN MatchSeq(pat, k + 1, s, start, j,
                                  Append(groups, SubSeq(s, i, j - 1)))
                    ELSE NoMatch

MatchAt(pat, s, i) == MatchSeq(pat, 1, s, i, i, <<>>)

\* re.search(pat, s) from position i on: the leftmost match
Search(pat, s, i) ==
    LET p == FirstFrom(s, i, LAMBDA q : MatchAt(pat, s, q).ok)
    IN  IF p = 0 THEN NoMatch ELSE MatchAt(pat, s, p)

\* re.finditer(pat, s): the non-overlapping matches, left to right
RECURSIVE FindIter(_, _, _)
FindIter(pat, s, i) ==
    LET m == Search(pat, s, i)
    IN  IF m.ok THEN <<m>> \o FindIter(pat, s, m.next) ELSE <<>>

\* re.sub(pat, r'\1', s): every match replaced by its first group
RECURSIVE SubGroup1(_, _, _)
SubGroup1(pat, s, i) ==
    LET m == Search(pat, s, i)
    IN  IF m.ok
        THEN SubSeq(s, i, m.start - 1) \o m.groups[1] \o SubGroup1(pat, s, m.next)
        ELSE SubSeq(s, i, Len(s))

\* s.replace(old, new)
RECURSIVE Replace(_, _, _, _)
Replace(s, i, old, new) ==
    LET p == FirstFrom(s, i, LAMBDA q : StartsWithAt(s, q, old))
    IN  IF p = 0 THEN SubSeq(s, i, Len(s))
        ELSE SubSeq(s, i, p - 1) \o new \o Replace(s, p + Len(old), old, new)

name_pattern == << Lit("\\textbf{\\Huge \\scshape "), Run({"}"}, 1), Lit("}") >>
contact_pattern == << Lit("\\small "), Run({"\n"}, 1) >>
href_pattern ==
    << Lit("\\href{"), NRun({"}"}, 1), Lit("}{\\underline{"), Run({"}"}, 1), Lit("}}") >>
section_pattern ==
    << Lit("\\section{"), Run({"}"}, 1), Lit("}"),
       Until({"\\section{", "\\end{document}"}) >>
subheading_pattern ==
    << Lit("\\resumeSubheading"), Spaces,
       Lit("{"), Run({"}"}, 0), Lit("}{"), Run({"}"}, 0), Lit("}{"),
       Run({"}"}, 0), Lit("}{"), Run({"}"}, 0), Lit("}") >>
project_pattern ==
    << Lit("\\resumeProjectHeading"), Spaces,
       Lit("{"), Run({"}"}, 0), Lit("}{"), Run({"}"}, 0), Lit("}") >>
textbf_pattern == << Lit("\\textbf{"), Run({"}"}, 0), Lit("}") >>
emph_pattern == << Lit("\\emph{"), Run({"}"}, 0), Lit("}") >>
bullet_pattern == << Lit("\\resumeItem{"), Run({"}"}, 0), Lit("}") >>
skills_pattern ==
    << Lit("\\textbf{"), Run({"}"}, 0), Lit("}{{: "), Run({"}", "\\"}, 0), Lit("}}") >>

-----------------------------------------------------------------------------
(* create_pdf_resume: what it parses from the reply and the layout rows it *)
(* draws, in drawing order.                                                *)

Row(kind, cells) == [kind |-> kind, cells |-> cells]

ParseName(c) ==
    LET name_match == Search(name_pattern, c, 1)
    IN  IF name_match.ok THEN name_match.groups[1] ELSE "Name"

ParseContact(c) ==
    LET contact_match == Search(contact_pattern, c, 1)
        contact == IF contact_match.ok THEN contact_match.groups[1] ELSE ""
    IN  Replace(SubGroup1(href_pattern, contact, 1), 1, "$|$", "|")

SubheadingRows(section_content) ==
    LET ms == FindIter(subheading_pattern, section_content, 1)
    IN  [k \in 1..Len(ms) |-> Row("subheading", ms[k].groups)]

ProjectRows(section_content) ==
    LET ms == FindIter(project_pattern, section_content, 1)
    IN  [k \in 1..Len(ms) |->
            Row("project",
                << SubGroup1(emph_pattern,
                             SubGroup1(textbf_pattern, ms[k].groups[1], 1), 1),
                   ms[k].groups[2] >>)]

BulletRows(section_content) ==
    LET ms == FindIter(bullet_pattern, section_content, 1)
    IN  [k \in 1..Len(ms) |-> Row("bullet", <<ms[k].groups[1]>>)]

SkillsRows(section_title, section_content) ==
    IF section_title = "Technical Skills"
    THEN LET ms == FindIter(skills_pattern, section_content, 1)
         IN  [k \in 1..Len(ms) |->
                 Row("skills", <<ms[k].groups[1] \o ":", ms[k].groups[2]>>)]
    ELSE <<>>

SectionRows(section_title, section_content) ==
    <<Row("section_title", <<section_title>>)>>
        \o SubheadingRows(section_content)
        \o ProjectRows(section_content)
        \o BulletRows(section_content)
        \o SkillsRows(section_title, section_content)

RECURSIVE ConcatRows(_, _)
ConcatRows(ms, k) ==
    IF k > Len(ms) THEN <<>>
    ELSE SectionRows(ms[k].groups[1], ms[k].groups[2]) \o ConcatRows(ms, k + 1)

\* the rows drawn for the reply c: name, contact line, then the sections
DrawnRows(c) ==
    << Row("name", <<ParseName(c)>>), Row("contact", <<ParseContact(c)>>) >>
        \o ConcatRows(FindIter(section_pattern, c, 1), 1)

-----------------------------------------------------------------------------
(* Files and console.                                                      *)

NoFiles == [p \in {} |-> None]

WriteFile(fs, path, data) ==
    [p \in (DOMAIN fs) \cup {path} |-> IF p = path THEN data ELSE fs[p]]

Exists(fs, path) == path \in DOMAIN fs

\* lit in s
Contains(s, lit) == \E i \in 1..Len(s) : StartsWithAt(s, i, lit)

resume_folder == "resume"
output_folder == "newresume"

\* output_folder / f"optimized_{resume_path.stem}.tex"
TexPath(stem) == output_folder \o "/optimized_" \o stem \o ".tex"
\* output_folder / f"optimized_{resume_path.stem}.pdf"
PdfPath(stem) == output_folder \o "/optimized_" \o stem \o ".pdf"

-----------------------------------------------------------------------------
(* create_pdf_resume, statement by statement.  Every statement is inside   *)
(* the function's try block: an exception raised by the file write or by   *)
(* the FPDF library is caught, printed and turned into the return value    *)
(* None.                                                                   *)

\* RenderFail with the exception leaving the function
RenderFailEscapes ==
    /\ console' = Append(console, "Traceback")
    /\ ret' = ret
    /\ rpc' = "raised"

\* lines 458-460: the except clause
RenderFail ==
    /\ console' = Append(console, "Error creating PDF")
    /\ ret' = None
    /\ rpc' = "returned"

\* lines 342-346: the raw-text save
RenderSaveTex ==
    /\ rpc = "save"
    /\ IF ~Contains(output_path, ".tex")
       THEN LET tex_path == Replace(output_path, 1, ".pdf", ".tex")
            IN  \/ /\ files' = WriteFile(files, tex_path, Str(content))
                   /\ rpc' = "draw"
                   /\ UNCHANGED <<console, ret>>
                \/ /\ RenderFail
                   /\ UNCHANGED files
       ELSE /\ rpc' = "draw"
            /\ UNCHANGED <<files, console, ret>>
    /\ UNCHANGED <<content, output_path, pdf>>
    /\ UNCHANGED <<text, structure, nfrag, pc, world, made_dirs, exit_status, loc, net, called>>

\* lines 348-452: parsing the reply and drawing its rows
RenderDraw ==
    /\ rpc = "draw"
    /\ \/ /\ RenderFail
          /\ UNCHANGED pdf
       \/ /\ pdf' = DrawnRows(content)
          /\ rpc' = "output"
          /\ UNCHANGED <<console, ret>>
    /\ UNCHANGED <<content, output_path, files>>
    /\ UNCHANGED <<text, structure, nfrag, pc, world, made_dirs, exit_status, loc, net, called>>

\* lines 454-456: pdf.output and the return
RenderOutput ==
    /\ rpc = "output"
    /\ \/ /\ files' = WriteFile(files, output_path, [preview |-> pdf])
          /\ ret' = Str(output_path)
          /\ rpc' = "returned"
          /\ UNCHANGED console
       \/ /\ RenderFail
          /\ UNCHANGED files
    /\ UNCHANGED <<content, output_path, pdf>>
    /\ UNCHANGED <<text, structure, nfrag, pc, world, made_dirs, exit_status, loc, net, called>>

RenderSteps == RenderSaveTex \/ RenderDraw \/ RenderOutput

NoRender ==
    /\ content = ""
    /\ output_path = ""
    /\ rpc = "idle"
    /\ pdf = <<>>
    /\ ret = None

-----------------------------------------------------------------------------
(* extract_from_pdf and optimize_resume_with_gemini                        *)

\* lines 101-103: the page texts, each followed by a line break
RECURSIVE JoinPages(_)
JoinPages(pages) ==
    IF pages = <<>> THEN ""
    ELSE Head(pages) \o "\n" \o JoinPages(Tail(pages))

\* what extract_from_pdf returns: the outcome is an error (an exception of
\* the PDF library or of open, caught at line 109) or the page texts read
extract_from_pdf(outcome) ==
    IF outcome.kind = "error"
    THEN [text |-> None, structure |-> None]
    ELSE LET t == JoinPages(outcome.pages)
         IN  [text |-> Str(t), structure |-> analyze_resume_structure(t)]

\* CredentialMissing as "api_key is None"
CredentialMissingOnlyNone(api_key) == api_key = None

\* line 153: if not api_key
CredentialMissing(api_key) == ~Truthy(api_key)

\* what optimize_resume_with_gemini does to the client and what it returns:
\* api_key is os.environ.get("GEMINI_API_KEY"); service is an error (an
\* exception raised in the try block, caught at line 335) or the reply
optimize_resume_with_gemini(api_key, service) ==
    IF CredentialMissing(api_key)
    THEN [configured |-> FALSE, calls |-> 0, result |-> None,
          msgs |-> << "Error: GEMINI_API_KEY not found", "Please add your Gemini API key" >>]
    ELSE IF service.kind = "error"
    THEN [configured |-> TRUE, calls |-> 1, result |-> None,
          msgs |-> << "Error with Google Gemini API" >>]
    ELSE [configured |-> TRUE, calls |-> 1, result |-> Str(service.reply), msgs |-> <<>>]

-----------------------------------------------------------------------------
(* main                                                                    *)

Stems == { "cv", "old.pdf.v2" }

PdfLists == { <<>>, <<"cv">>, <<"old.pdf.v2">>, <<"cv", "old.pdf.v2">> }

Worlds ==
    { w \in [ resume_folder : BOOLEAN,
              output_folder : BOOLEAN,
              pdf_files     : PdfLists,
              job_desc      : {"absent", "utf8", "unreadable"},
              details       : {"absent", "utf8", "not_utf8", "unreadable"} ] :
        ~w.resume_folder => w.pdf_files = <<>> }

PageSamples ==
    { <<>>, <<"">>, <<"Jane Doe\nSKILLS\n\tPython">>, <<"Jane Doe", "", "Experience  x">> }

ReplySamples ==
    { "",
      "hello",
      "\\textbf{\\Huge \\scshape Al}\n\\small 1 $|$ \\href{m}{\\underline{a@b}}\n"
        \o "\\section{Education}\n\\resumeSubheading\n {Org}{TX}\n {BA}{2020}\n"
        \o "\\resumeItem{Did it}\n"
        \o "\\section{Technical Skills}\n\\textbf{Lang}{: C, R}\n\\end{document}" }

ApiKeys == { None, Str(""), Str("key") }

NoLocals ==
    [ resume_path |-> None, additional_details |-> None, resume_text |-> None,
      resume_structure |-> None, job_description |-> None,
      optimized_resume |-> None, pdf_path |-> None ]

Init ==
    /\ text = "" /\ structure = None /\ nfrag = 0
    /\ pc = "folders"
    /\ world \in Worlds
    /\ made_dirs = {}
    /\ files = NoFiles
    /\ console = <<>>
    /\ exit_status = None
    /\ loc = NoLocals
    /\ net = [api_key |-> None, configured |-> FALSE, calls |-> 0]
    /\ called = {}
    /\ NoRender

\* return from main: the process ends with status 0
Return(msgs) ==
    /\ console' = console \o msgs
    /\ pc' = "done"
    /\ exit_status' = Str("0")

\* an exception leaves main: traceback, the process ends with status 1
Raise(exc) ==
    /\ console' = Append(console, "Traceback: " \o exc)
    /\ pc' = "done"
    /\ exit_status' = Str("1")

Goto(label, msgs) ==
    /\ console' = console \o msgs
    /\ pc' = label
    /\ UNCHANGED exit_status

\* lines 10-19
EnsureFolders ==
    /\ pc = "folders"
    /\ IF ~world.resume_folder
       THEN /\ made_dirs' = made_dirs \cup {resume_folder}
            /\ Return(<<"Created 'resume' folder">>)
       ELSE /\ made_dirs' = IF world.output_folder THEN made_dirs
                            ELSE made_dirs \cup {output_folder}
            /\ Goto("find_pdf", <<>>)
    /\ UNCHANGED <<world, files, loc, net>>
    /\ UNCHANGED <<analyzeVars, renderVars, called>>

\* lines 21-28
FindPdf ==
    /\ pc = "find_pdf"
    /\ IF world.pdf_files = <<>>
       THEN /\ Return(<<"No PDF resume found">>)
            /\ UNCHANGED loc
       ELSE /\ loc' = [loc EXCEPT !.resume_path = Str(world.pdf_files[1])]
            /\ Goto("job_desc", <<"Found resume">>)
    /\ UNCHANGED <<world, made_dirs, files, net>>
    /\ UNCHANGED <<analyzeVars, renderVars, called>>

\* lines 30-34
CheckJobDescription ==
    /\ pc = "job_desc"
    /\ IF world.job_desc = "absent"
       THEN Return(<<"Job description file not found">>)
       ELSE Goto("details", <<>>)
    /\ UNCHANGED <<world, made_dirs, files, loc, net>>
    /\ UNCHANGED <<analyzeVars, renderVars, called>>

\* lines 36-51
LoadAdditionalDetails ==
    /\ pc = "details"
    /\ CASE world.details = "absent" ->
              /\ loc' = [loc EXCEPT !.additional_details = Str("")]
              /\ Goto("extract", <<"No 'additional_details.txt' file found">>)
         [] world.details = "utf8" ->
              /\ loc' = [loc EXCEPT !.additional_details = Str("details")]
              /\ Goto("extract", <<"Found additional details file">>)
         [] world.details = "not_utf8" ->
              /\ loc' = [loc EXCEPT !.additional_details = Str("details")]
              /\ Goto("extract", <<"Found additional details file (using alternate encoding)">>)
         [] world.details = "unreadable" ->
              /\ UNCHANGED loc
              /\ Raise("OSError")
    /\ UNCHANGED <<world, made_dirs, files, net>>
    /\ UNCHANGED <<analyzeVars, renderVars, called>>

\* ExtractionFailed with the result ignored
ExtractionFailedIgnored(resume_text) == FALSE

\* line 55: if not resume_text
ExtractionFailed(resume_text) == ~Truthy(resume_text)

\* lines 53-57
Extract ==
    /\ pc = "extract"
    /\ \E outcome \in {[kind |-> "error"]} \cup { [kind |-> "pages", pages |-> ps] : ps \in PageSamples } :
         LET r == extract_from_pdf(outcome)
         IN  /\ loc' = [loc EXCEPT !.resume_text = r.text, !.resume_structure = r.structure]
             /\ IF ExtractionFailed(r.text)
                THEN Return((IF outcome.kind = "error"
                             THEN <<"Error extracting text from PDF">> ELSE <<>>)
                            \o <<"Failed to extract text from the resume.">>)
                ELSE Goto("read_job_desc", <<>>)
    /\ UNCHANGED <<world, made_dirs, files, net>>
    /\ called' = called \cup {"extract_from_pdf"}
    /\ UNCHANGED <<analyzeVars, renderVars>>

\* lines 59-61
ReadJobDescription ==
    /\ pc = "read_job_desc"
    /\ IF world.job_desc = "utf8"
       THEN /\ loc' = [loc EXCEPT !.job_description = Str("job")]
            /\ Goto("optimize", <<>>)
       ELSE /\ UNCHANGED loc
            /\ Raise("UnicodeDecodeError or OSError")
    /\ UNCHANGED <<world, made_dirs, files, net>>
    /\ UNCHANGED <<analyzeVars, renderVars, called>>

\* OptimizeFailed as "optimized_resume is None"
OptimizeFailedOnlyNone(optimized_resume) == optimized_resume = None

\* line 65: if not optimized_resume
OptimizeFailed(optimized_resume) == ~Truthy(optimized_resume)

\* lines 63-67
Optimize ==
    /\ pc = "optimize"
    /\ \E api_key \in ApiKeys :
       \E service \in {[kind |-> "error"]} \cup { [kind |-> "reply", reply |-> r] : r \in ReplySamples } :
         LET o == optimize_resume_with_gemini(api_key, service)
         IN  /\ net' = [api_key |-> api_key, configured |-> o.configured,
                        calls |-> net.calls + o.calls]
             /\ loc' = [loc EXCEPT !.optimized_resume = o.result]
             /\ IF OptimizeFailed(o.result)
                THEN Return(o.msgs \o <<"Failed to optimize the resume.">>)
                ELSE Goto("write_tex", o.msgs)
    /\ UNCHANGED <<world, made_dirs, files>>
    /\ called' = called \cup {"optimize_resume_with_gemini"}
    /\ UNCHANGED <<analyzeVars, renderVars>>

\* lines 69-75
WriteTex ==
    /\ pc = "write_tex"
    /\ \/ /\ files' = WriteFile(files, TexPath(loc.resume_path.str), loc.optimized_resume)
          /\ Goto("call_render", <<"Optimized resume saved", "Resume optimization complete!">>)
       \/ /\ UNCHANGED files
          /\ Raise("OSError")
    /\ UNCHANGED <<world, made_dirs, loc, net>>
    /\ UNCHANGED <<analyzeVars, renderVars, called>>

\* line 78: the call of create_pdf_resume
CallRender ==
    /\ pc = "call_render"
    /\ content' = loc.optimized_resume.str
    /\ output_path' = PdfPath(loc.resume_path.str)
    /\ rpc' = "save"
    /\ pc' = "render"
    /\ called' = called \cup {"create_pdf_resume"}
    /\ UNCHANGED <<pdf, ret>>
    /\ UNCHANGED <<world, made_dirs, files, console, exit_status, loc, net>>
    /\ UNCHANGED analyzeVars

\* RenderReturned with a halt when the renderer returned None
RenderReturnedHalting ==
    /\ pc = "render"
    /\ rpc = "returned"
    /\ loc' = [loc EXCEPT !.pdf_path = ret]
    /\ IF ret = None
       THEN Return(<<"PDF preview created at">>)
       ELSE Goto("compile", <<"PDF preview created at">>)
    /\ UNCHANGED <<world, made_dirs, files, net>>
    /\ UNCHANGED <<analyzeVars, renderVars, called>>

\* lines 78-79: create_pdf_resume has returned
RenderReturned ==
    /\ pc = "render"
    /\ rpc = "returned"
    /\ loc' = [loc EXCEPT !.pdf_path = ret]
    /\ Goto("compile", <<"PDF preview created at">>)
    /\ UNCHANGED <<world, made_dirs, files, net>>
    /\ UNCHANGED <<analyzeVars, renderVars, called>>

\* lines 81-94: pdflatex on the text artifact
Compile ==
    /\ pc = "compile"
    /\ \/ /\ files' = WriteFile(files, PdfPath(loc.resume_path.str), [latex |-> TRUE])
          /\ Return(<<"Attempting to compile", "LaTeX compilation successful">>)
       \/ /\ UNCHANGED files
          /\ Return(<<"Attempting to compile", "LaTeX compilation had issues", "Error details">>)
       \/ /\ UNCHANGED files
          /\ Return(<<"Attempting to compile", "Could not compile LaTeX", "Using basic PDF version instead.">>)
    /\ UNCHANGED <<world, made_dirs, loc, net>>
    /\ called' = called \cup {"subprocess.run"}
    /\ UNCHANGED <<analyzeVars, renderVars>>

Next ==
    \/ EnsureFolders
    \/ FindPdf
    \/ CheckJobDescription
    \/ LoadAdditionalDetails
    \/ Extract
    \/ ReadJobDescription
    \/ Optimize
    \/ WriteTex
    \/ CallRender
    \/ RenderSteps
    \/ RenderReturned
    \/ Compile

Spec == Init /\ [][Next]_vars

-----------------------------------------------------------------------------
(* The analyser applied to bounded input texts.                            *)

MaxFrags == 4

AnalyzeFragments == { "Skills", "EDUCATION", "experience", "x", " ", "\n", "\t" }

NoMain ==
    /\ pc = "unit"
    /\ world = [ resume_folder |-> TRUE, output_folder |-> TRUE, pdf_files |-> <<>>,
                 job_desc |-> "absent", details |-> "absent" ]
    /\ made_dirs = {}
    /\ files = NoFiles
    /\ console = <<>>
    /\ exit_status = None
    /\ loc = NoLocals
    /\ net = [api_key |-> None, configured |-> FALSE, calls |-> 0]
    /\ called = {}

AnalyzeInit ==
    /\ text = ""
    /\ structure = None
    /\ nfrag = 0
    /\ NoMain
    /\ NoRender

AnalyzeExtend ==
    /\ structure = None
    /\ nfrag < MaxFrags
    /\ \E f \in AnalyzeFragments : text' = text \o f
    /\ nfrag' = nfrag + 1
    /\ UNCHANGED structure
    /\ UNCHANGED <<mainVars, files, renderVars>>

AnalyzeCall ==
    /\ structure = None
    /\ structure' = analyze_resume_structure(text)
    /\ UNCHANGED <<text, nfrag>>
    /\ UNCHANGED <<mainVars, files, renderVars>>

AnalyzeNext == AnalyzeExtend \/ AnalyzeCall

SpecAnalyze == AnalyzeInit /\ [][AnalyzeNext]_vars

-----------------------------------------------------------------------------
(* The renderer applied to bounded replies.                                *)

MaxReplyFrags == 3

ReplyFragments ==
    { "\\textbf{\\Huge \\scshape Al}\n\\small 1 $|$ \\href{m}{\\underline{a@b}}\n",
      "\\section{Education}\n",
      "\\section{Technical Skills}\n",
      "\\resumeSubheading\n {Org}{TX}\n {BA}{2020}\n",
      "\\resumeSubheading{Org}{TX}{BA}{2020}\n",
      "\\resumeProjectHeading\n {\\textbf{Git} $|$ \\emph{Py}}{2020}\n",
      "\\resumeProjectHeading{Git}{2020}\n",
      "\\resumeItem{Did it}\n",
      "\\textbf{Lang}{: C, R} \\\\\n",
      "\\textbf{Tool}{{: Git}}\n",
      "\\end{document}",
      "hello\n" }

RenderInit ==
    /\ text = "" /\ structure = None /\ nfrag = 0
    /\ NoMain
    /\ content = ""
    /\ output_path \in { PdfPath("cv"), TexPath("cv") }
    /\ rpc = "input"
    /\ pdf = <<>>
    /\ ret = None

RenderExtend ==
    /\ rpc = "input"
    /\ nfrag < MaxReplyFrags
    /\ \E f \in ReplyFragments : content' = content \o f
    /\ nfrag' = nfrag + 1
    /\ UNCHANGED <<output_path, rpc, pdf, ret>>
    /\ UNCHANGED <<text, structure, mainVars, files>>

RenderCall ==
    /\ rpc = "input"
    /\ rpc' = "save"
    /\ UNCHANGED <<content, output_path, pdf, ret>>
    /\ UNCHANGED <<text, structure, nfrag, mainVars, files>>

RenderNext == RenderExtend \/ RenderCall \/ RenderSteps

SpecRender == RenderInit /\ [][RenderNext]_vars

-----------------------------------------------------------------------------
(* Properties.                                                             *)

InConsole(msg) == \E i \in 1..Len(console) : console[i] = msg

LastMessage == IF console = <<>> THEN "" ELSE console[Len(console)]

MainTexPath == TexPath(loc.resume_path.str)

ExtractionSucceeded == "extract_from_pdf" \in called /\ loc.resume_text # None

GatesPassed ==
    /\ world.resume_folder
    /\ world.pdf_files # <<>>
    /\ world.job_desc # "absent"
    /\ ExtractionSucceeded

GateFailed ==
    \/ ~world.resume_folder /\ pc # "folders"
    \/ world.pdf_files = <<>> /\ pc \notin {"folders", "find_pdf"}
    \/ world.job_desc = "absent" /\ pc \notin {"folders", "find_pdf", "job_desc"}
    \/ "extract_from_pdf" \in called /\ loc.resume_text = None

\* C1: the remote call is issued, and a file is written, only if the drop
\* folder existed at start, a PDF was found, job_description.txt exists and
\* extraction succeeded (a file also needs a reply of the remote call); once
\* a gate has failed the run is over with no call issued and no file written.
C1_GatedCallAndArtifact ==
    /\ net.calls > 0 => GatesPassed
    /\ DOMAIN files # {} =>
          GatesPassed /\ net.calls > 0 /\ loc.optimized_resume # None
    /\ GateFailed => pc = "done" /\ net.calls = 0 /\ DOMAIN files = {}

C1_Witness ==
    /\ pc = "done"
    /\ net.calls = 1
    /\ GatesPassed
    /\ Exists(files, TexPath("cv"))
    /\ files[TexPath("cv")] = loc.optimized_resume

C2_Saved == InConsole("Optimized resume saved")

C2_TexInPlace == Exists(files, MainTexPath) /\ files[MainTexPath] = loc.optimized_resume

\* the statements of main and of create_pdf_resume in execution order
StepOrder ==
    << "folders", "find_pdf", "job_desc", "details", "extract", "read_job_desc",
       "optimize", "write_tex", "call_render", "render", "compile", "done" >>

RenderOrder == << "idle", "input", "save", "draw", "output", "returned" >>

IndexIn(seq, x) == CHOOSE k \in 1..Len(seq) : seq[k] = x

StepRank == IndexIn(StepOrder, pc) * Len(RenderOrder) + IndexIn(RenderOrder, rpc)

\* C2: once main has saved the text artifact, the artifact stays in place
\* with the reply as its content; a run that is over has invoked the compiler
\* and ended with exit status 0, also when create_pdf_resume returned None;
\* and the run reaches its end: until then a next statement is enabled, and
\* every statement moves the run forward.
C2_RenderFailureDoesNotHalt ==
    /\ [](C2_Saved => C2_TexInPlace)
    /\ [](C2_Saved /\ pc = "done" =>
            "subprocess.run" \in called /\ exit_status = Str("0"))
    /\ [](C2_Saved /\ pc # "done" => ENABLED Next)
    /\ [][StepRank' > StepRank]_vars

C2_Witness ==
    /\ pc = "done"
    /\ C2_Saved
    /\ "create_pdf_resume" \in called
    /\ loc.pdf_path = None
    /\ "subprocess.run" \in called
    /\ C2_TexInPlace

\* C3: every run ends with exit status 0: no exception leaves main.
C3_AlwaysExitZero == pc = "done" => exit_status = Str("0")

\* C4: with GEMINI_API_KEY absent or empty, optimize_resume_with_gemini
\* returns None after the remediation messages, without configuring the
\* client and without a network call; no run issues more than one call.
C4_MissingCredential ==
    /\ net.calls <= 1
    /\ ("optimize_resume_with_gemini" \in called /\ net.api_key \in {None, Str("")}) =>
          /\ loc.optimized_resume = None
          /\ ~net.configured
          /\ net.calls = 0
          /\ InConsole("Error: GEMINI_API_KEY not found")
          /\ InConsole("Please add your Gemini API key")

C4_Witness ==
    /\ "optimize_resume_with_gemini" \in called
    /\ net.api_key = Str("")
    /\ pc = "done"
    /\ net.calls = 0

TemplateMarkers ==
    { "\\textbf{", "\\small ", "\\section{", "\\href{", "\\resumeSubheading",
      "\\resumeProjectHeading", "\\resumeItem", "\\end{document}" }

NoMarkers(c) == \A m \in TemplateMarkers : ~Contains(c, m)

Placeholders == << Row("name", <<"Name">>), Row("contact", <<"">>) >>

\* C5: create_pdf_resume never raises and returns its destination path or
\* None; for a reply without any template marker the rows drawn are the
\* placeholder name "Name" and an empty contact line, and nothing else.
C5_RendererNeverRaises ==
    /\ rpc \in {"idle", "input", "save", "draw", "output", "returned"}
    /\ rpc = "returned" => ret \in {None, Str(output_path)}
    /\ (rpc = "output" /\ NoMarkers(content)) => pdf = Placeholders

C5_Witness ==
    /\ rpc = "returned"
    /\ ret = Str(output_path)
    /\ content # ""
    /\ NoMarkers(content)
    /\ pdf = Placeholders

BreakThenTwoSpaces(txt) ==
    \E i \in 1..Len(txt) : At(txt, i) = "\n" /\ At(txt, i + 1) = " " /\ At(txt, i + 2) = " "

BreakThenTab(txt) ==
    \E i \in 1..Len(txt) : At(txt, i) = "\n" /\ At(txt, i + 1) = "\t"

\* C6: the indentation style is "spaces" exactly when a line break is
\* followed by two or more space characters, else "tabs" exactly when a line
\* break is followed by a tab, else "unknown".
C6_IndentationStyle ==
    structure # None =>
        structure.indentation_style =
            IF BreakThenTwoSpaces(text) THEN "spaces"
            ELSE IF BreakThenTab(text) THEN "tabs"
            ELSE "unknown"

\* name occurs in txt as a whole word, whatever its casing: a maximal run of
\* word characters of txt that is name up to case
WholeWord(txt, name) ==
    \E i \in 1..(Len(txt) - Len(name) + 1) :
        LET j == i + Len(name) - 1 IN
        /\ ~IsWord(At(txt, i - 1))
        /\ ~IsWord(At(txt, j + 1))
        /\ \A k \in i..j : IsWord(At(txt, k))
        /\ LowerStr(SubSeq(txt, i, j)) = LowerStr(name)

VocabularyIndex(name) == CHOOSE k \in 1..Len(common_sections) : common_sections[k] = name

\* C7: the section list holds a vocabulary name exactly when the name occurs
\* in the text as a case-insensitive whole word, holds no name twice, and is
\* in the order of the vocabulary.
C7_SectionList ==
    structure # None =>
        LET secs == structure.sections IN
        /\ \A k \in 1..Len(common_sections) :
              (\E m \in 1..Len(secs) : secs[m] = common_sections[k])
                  <=> WholeWord(text, common_sections[k])
        /\ \A m \in 1..Len(secs) : \E k \in 1..Len(common_sections) : secs[m] = common_sections[k]
        /\ \A m, n \in 1..Len(secs) :
              m < n => VocabularyIndex(secs[m]) < VocabularyIndex(secs[n])

C7_Witness ==
    /\ structure # None
    /\ StartsWithAt(text, 1, "Skills")
    /\ Contains(text, "experience")
    /\ ~Contains(text, "experiencex")
    /\ structure.sections = <<"EXPERIENCE", "SKILLS">>

\* the sub-heading block as the prompt's template lays it out: fields 1-2 on
\* one line, fields 3-4 on the next
template_subheading ==
    << Lit("\\resumeSubheading"), Spaces,
       Lit("{"), Run({"}"}, 0), Lit("}{"), Run({"}"}, 0), Lit("}"), Spaces,
       Lit("{"), Run({"}"}, 0), Lit("}{"), Run({"}"}, 0), Lit("}") >>

\* the project-heading block as the prompt's template lays it out
template_project ==
    << Lit("\\resumeProjectHeading"), Spaces,
       Lit("{\\textbf{"), Run({"}"}, 0), Lit("} $|$ \\emph{"), Run({"}"}, 0),
       Lit("}}{"), Run({"}"}, 0), Lit("}") >>

\* the category/value pair as the prompt's template writes it
template_skill == << Lit("\\textbf{"), Run({"}"}, 0), Lit("}{: "), Run({"}"}, 0), Lit("}") >>

HasRow(r) == \E i \in 1..Len(pdf) : pdf[i] = r

\* C8: every sub-heading block in the template's layout inside a section
\* body is drawn as one heading row carrying its four fields, and every
\* project-heading block in the template's form as a row with its label and
\* date.
C8_TemplateBlocksRendered ==
    rpc = "output" =>
        LET secs == FindIter(section_pattern, content, 1) IN
        \A k \in 1..Len(secs) :
            LET body == secs[k].groups[2]
                subs == FindIter(template_subheading, body, 1)
                projs == FindIter(template_project, body, 1)
            IN  /\ \A i \in 1..Len(subs) : HasRow(Row("subheading", subs[i].groups))
                /\ \A i \in 1..Len(projs) :
                      \E j \in 1..Len(pdf) :
                          /\ pdf[j].kind = "project"
                          /\ pdf[j].cells[2] = projs[i].groups[3]

RECURSIVE ExpectedSkills(_, _)
ExpectedSkills(secs, k) ==
    IF k > Len(secs) THEN <<>>
    ELSE (IF secs[k].groups[1] = "Technical Skills"
          THEN LET ms == FindIter(template_skill, secs[k].groups[2], 1)
               IN  [i \in 1..Len(ms) |->
                       Row("skills", <<ms[i].groups[1] \o ":", ms[i].groups[2]>>)]
          ELSE <<>>)
         \o ExpectedSkills(secs, k + 1)

\* C9: for a reply written as the template is, a section titled "Technical
\* Skills" yields one "label: value" row per category/value pair of its
\* body, in document order, and any other section yields no skills row.
C9_SkillsRows ==
    (rpc = "output" /\ ~Contains(content, "{{")) =>
        SelectSeq(pdf, LAMBDA r : r.kind = "skills")
            = ExpectedSkills(FindIter(section_pattern, content, 1), 1)

HaltedAtStep6 == pc = "done" /\ LastMessage = "Failed to extract text from the resume."
HaltedAtStep7 == pc = "done" /\ LastMessage = "Failed to optimize the resume."

C10_PassedOn ==
    /\ InConsole("Optimized resume saved") => C2_TexInPlace
    /\ "create_pdf_resume" \in called => Str(content) = loc.optimized_resume

\* C10 as stated: the run halts at step 7 exactly when the remote call
\* failed and at step 6 exactly when extraction reported failure; every reply
\* returned, the empty one too, is saved verbatim and passed to the renderer.
C10_HaltsExactlyOnFailure ==
    /\ "extract_from_pdf" \in called => (HaltedAtStep6 <=> loc.resume_text = None)
    /\ "optimize_resume_with_gemini" \in called =>
          (HaltedAtStep7 <=> loc.optimized_resume = None)
    /\ C10_PassedOn

\* C10 as amended: the run halts at step 7 exactly when
\* optimize_resume_with_gemini returned None or the empty reply, and at step 6
\* exactly when extract_from_pdf returned None or the empty text; the reply
\* main saves and passes to the renderer is the returned reply verbatim.
C10_HaltsExactlyOnFalsy ==
    /\ "extract_from_pdf" \in called =>
          (HaltedAtStep6 <=> loc.resume_text \in {None, Str("")})
    /\ "optimize_resume_with_gemini" \in called =>
          (HaltedAtStep7 <=> loc.optimized_resume \in {None, Str("")})
    /\ C10_PassedOn

C10_Witness ==
    /\ HaltedAtStep7
    /\ net.calls = 1
    /\ loc.optimized_resume = Str("")
    /\ DOMAIN files = {}

\* the raw-text save of lines 342-346 has just been performed in a run of main
AfterRenderSave == pc = "render" /\ rpc = "draw"

\* C11: for every input PDF base name, after the renderer's raw-text save
\* the only file is the text artifact main wrote in step 8, at
\* newresume/optimized_<stem>.tex, and it holds the reply verbatim: the save
\* re-wrote exactly that path and created no other file.
C11_IdempotentResave ==
    AfterRenderSave =>
        /\ DOMAIN files = {MainTexPath}
        /\ files[MainTexPath] = loc.optimized_resume

====
